---- MODULE Spec2Model ----
(***************************************************************************)
(* A model of gic-rs-tutorials: src/utils.py and src/spectral_indexes.py.  *)
(*                                                                         *)
(* Four state machines share this module, one specification each:          *)
(*   Spec        calculate_spectral_index_over_items (with                 *)
(*               load_data_from_item and find_intersection_poly)           *)
(*   SpecMedian  calculate_median_index                                    *)
(*   SpecFormula the index formulas of spectral_indexes.py                 *)
(*   SpecFlip    xr_spectral_index_data_to_np followed by the flips of     *)
(*               plot_territory / plot_overlay                             *)
(* The variables of the machines a specification does not run stay at      *)
(* their idle values.                                                      *)
(***************************************************************************)
EXTENDS Integers, Sequences, FiniteSets, TLC

VARIABLES
    \* ---- calculate_spectral_index_over_items ----
    items,            \* the argument items: a sequence of catalog items
    bbox,             \* the argument bbox: <<minX, minY, maxX, maxY>>
    pc,               \* position of the call in its code
    it,               \* how many items enumerate(items) has yielded
    idx,              \* loop variable idx (0-based)
    item,             \* loop variable item
    data,             \* local data
    spectral_index,   \* local spectral_index
    index_results,    \* local index_results
    stdout,           \* what print() has written, one entry per call
    requests,         \* the calls made to odc.stac.load, in order
    events,           \* begin/end of every load and formula application
    error,            \* the exception that left the call, or None
    returned,         \* the value the call returned, or None
    \* ---- calculate_median_index ----
    spectral_index_values,  \* the argument: a sequence of rasters
    m_pc,
    spectral_index_values_xr,
    median_out,
    m_error,
    \* ---- index formulas ----
    f_name,           \* which formula is running
    bundles,          \* the datasets passed: name -> set of bands present
    f_pc,             \* index of the next instruction of the formula
    f_env,            \* the formula's locals: name -> value (a term)
    f_ops,            \* the operations performed so far
    f_result,
    f_error,
    \* ---- display flip ----
    grid,             \* the 2-D input grid (a sequence of rows)
    np_out,           \* the current array
    flips             \* how many times np.flipud has been applied

pvars == <<items, bbox, pc, it, idx, item, data, spectral_index, index_results,
           stdout, requests, events, error, returned>>
\* the variables of the pipeline other than stdout, which
\* calculate_median_index writes too
plocals == <<items, bbox, pc, it, idx, item, data, spectral_index, index_results,
             requests, events, error, returned>>
mvars == <<spectral_index_values, m_pc, spectral_index_values_xr, median_out, m_error>>
fvars == <<f_name, bundles, f_pc, f_env, f_ops, f_result, f_error>>
gvars == <<grid, np_out, flips>>
vars == <<pvars, mvars, fvars, gvars>>

\* Python's None
None == [none |-> TRUE]

\* A float is <<n>> for the number n, or NaN.
NaN == <<>>
Num(n) == <<n>>

(***************************************************************************)
(* Bounds of the model.                                                    *)
(***************************************************************************)
MaxItems == 3      \* longest items sequence
MaxRasters == 3    \* longest sequence given to calculate_median_index
MaxRows == 3       \* most rows of a grid given to the display flip
MaxCols == 2       \* most columns of such a grid
MaxFlips == 2      \* applications of np.flipud in a row

RECURSIVE SeqsUpTo(_, _)
SeqsUpTo(S, n) ==
    IF n = 0 THEN {<<>>}
    ELSE LET shorter == SeqsUpTo(S, n - 1)
         IN shorter \cup {Append(s, x) : s \in {t \in shorter : Len(t) = n - 1}, x \in S}

Max(a, b) == IF a >= b THEN a ELSE b
Min(a, b) == IF a <= b THEN a ELSE b

(***************************************************************************)
(* Geometry.  A polygon is an axis-aligned rectangle <<minx, miny, maxx,   *)
(* maxy>> (possibly degenerate: a segment or a point), or the empty        *)
(* geometry.                                                               *)
(***************************************************************************)
EmptyGeometry == [wkt |-> "POLYGON EMPTY"]
NaNBounds == <<NaN, NaN, NaN, NaN>>

\* shapely.intersection of two rectangles: empty when they are disjoint,
\* otherwise the common rectangle (a segment or a point when they only touch).
intersection(a, b) ==
    LET lox == Max(a[1], b[1])
        loy == Max(a[2], b[2])
        hix == Min(a[3], b[3])
        hiy == Min(a[4], b[4])
    IN IF lox > hix \/ loy > hiy THEN EmptyGeometry ELSE <<lox, loy, hix, hiy>>

\* shapely 2 (the version that has shapely.intersection): the bounds of an
\* empty geometry are four NaNs; no exception is raised.
bounds(g) ==
    IF g = EmptyGeometry THEN NaNBounds
    ELSE <<Num(g[1]), Num(g[2]), Num(g[3]), Num(g[4])>>

\* box(*bbox)
box(b) == b

find_intersection_poly(i, bbox_poly) ==
    LET item_poly == i.geometry
    IN intersection(bbox_poly, item_poly)

disjoint(a, b) == intersection(a, b) = EmptyGeometry

(***************************************************************************)
(* Inputs of the pipeline.                                                 *)
(***************************************************************************)
Footprints == { <<0, 0, 4, 4>>,     \* overlaps both areas of interest
                <<0, 0, 2, 2>>,     \* touches <<2,2,6,6>> in one point
                <<0, 0, 1, 1>> }    \* disjoint from <<2,2,6,6>>
Items == [geometry : Footprints]
AreasOfInterest == { <<2, 2, 6, 6>>, <<0, 0, 6, 6>> }
bands == {"red", "nir"}

\* The request load_data_from_item sends to odc.stac.load.
load_request(i, bs, bbox_poly) ==
    LET item_bbox == find_intersection_poly(i, bbox_poly)
    IN [items |-> <<i>>, bands |-> bs, bbox |-> bounds(item_bbox)]

\* What a successful odc.stac.load(...).isel(time=0) returns for a request:
\* the bundle of the requested bands of that item within that extent.
load_result(req) == [item |-> req.items[1], bands |-> req.bands, extent |-> req.bbox]

\* The injected spectral_index_func, when it succeeds: a raster derived from
\* exactly the dataset it was given.
spectral_index_func(d) == [index_of |-> d]

\* print(f"Processing item {idx+1} out of {n_items}")
progress_message_0based(i, n) == <<"Processing item", i, "out of", n>>
progress_message(i, n) == <<"Processing item", i + 1, "out of", n>>

\* index_results.append(spectral_index)
list_prepend(l, x) == <<x>> \o l
list_append(l, x) == Append(l, x)

\* The for statement has no try/except: an exception raised in its body leaves
\* the function.
pc_skip_and_continue == "for"
pc_after_exception == "raised"

\* The exception object that reaches the caller is the one that was raised.
propagate(exc) == exc

n_items == Len(items)

PInit ==
    /\ items \in SeqsUpTo(Items, MaxItems)
    /\ bbox \in AreasOfInterest
    /\ pc = "for"
    /\ it = 0
    /\ idx = None
    /\ item = None
    /\ data = None
    /\ spectral_index = None
    /\ index_results = <<>>
    /\ stdout = <<>>
    /\ requests = <<>>
    /\ events = <<>>
    /\ error = None
    /\ returned = None

PIdle ==
    /\ items = <<>>
    /\ bbox = <<0, 0, 0, 0>>
    /\ pc = "idle"
    /\ it = 0
    /\ idx = None
    /\ item = None
    /\ data = None
    /\ spectral_index = None
    /\ index_results = <<>>
    /\ stdout = <<>>
    /\ requests = <<>>
    /\ events = <<>>
    /\ error = None
    /\ returned = None

\* for idx, item in enumerate(items): the next item, or the end of the loop
ForNext ==
    /\ pc = "for"
    /\ IF it < Len(items)
       THEN /\ idx' = it
            /\ item' = items[it + 1]
            /\ it' = it + 1
            /\ pc' = "print"
       ELSE /\ pc' = "return"
            /\ UNCHANGED <<idx, item, it>>
    /\ UNCHANGED <<items, bbox, data, spectral_index, index_results, stdout,
                   requests, events, error, returned>>

PrintProgress ==
    /\ pc = "print"
    /\ stdout' = Append(stdout, progress_message(idx, n_items))
    /\ pc' = "load"
    /\ UNCHANGED <<items, bbox, it, idx, item, data, spectral_index, index_results,
                   requests, events, error, returned>>

\* load_data_from_item up to and including the call of odc.stac.load
LoadBegin ==
    /\ pc = "load"
    /\ requests' = Append(requests, load_request(item, bands, box(bbox)))
    /\ events' = Append(events, [kind |-> "load_begin", idx |-> idx, of |-> item])
    /\ pc' = "loading"
    /\ UNCHANGED <<items, bbox, it, idx, item, data, spectral_index, index_results,
                   stdout, error, returned>>

\* odc.stac.load returns, and .isel(time=0) selects the first slice
LoadReturnStale ==
    /\ pc = "loading"
    /\ data' = IF data = None THEN load_result(requests[Len(requests)]) ELSE data
    /\ events' = Append(events, [kind |-> "load_end", idx |-> idx, of |-> item])
    /\ pc' = "func"
    /\ UNCHANGED <<items, bbox, it, idx, item, spectral_index, index_results,
                   stdout, requests, error, returned>>
LoadReturn ==
    /\ pc = "loading"
    /\ data' = load_result(requests[Len(requests)])
    /\ events' = Append(events, [kind |-> "load_end", idx |-> idx, of |-> item])
    /\ pc' = "func"
    /\ UNCHANGED <<items, bbox, it, idx, item, spectral_index, index_results,
                   stdout, requests, error, returned>>

\* odc.stac.load (or isel) raises: the backend's behaviour is not this
\* program's, so any request may fail
LoadRaise ==
    /\ pc = "loading"
    /\ events' = Append(events, [kind |-> "load_raise", idx |-> idx, of |-> item])
    /\ error' = propagate([raised_by |-> "load", idx |-> idx])
    /\ pc' = pc_after_exception
    /\ UNCHANGED <<items, bbox, it, idx, item, data, spectral_index, index_results,
                   stdout, requests, returned>>

FuncBegin ==
    /\ pc = "func"
    /\ events' = Append(events, [kind |-> "func_begin", idx |-> idx, of |-> data.item])
    /\ pc' = "computing"
    /\ UNCHANGED <<items, bbox, it, idx, item, data, spectral_index, index_results,
                   stdout, requests, error, returned>>

FuncReturn ==
    /\ pc = "computing"
    /\ spectral_index' = spectral_index_func(data)
    /\ events' = Append(events, [kind |-> "func_end", idx |-> idx, of |-> data.item])
    /\ pc' = "append"
    /\ UNCHANGED <<items, bbox, it, idx, item, data, index_results,
                   stdout, requests, error, returned>>

\* the injected function raises (a missing band, for one)
FuncRaise ==
    /\ pc = "computing"
    /\ events' = Append(events, [kind |-> "func_raise", idx |-> idx, of |-> data.item])
    /\ error' = propagate([raised_by |-> "func", idx |-> idx])
    /\ pc' = pc_after_exception
    /\ UNCHANGED <<items, bbox, it, idx, item, data, spectral_index, index_results,
                   stdout, requests, returned>>

AppendResult ==
    /\ pc = "append"
    /\ index_results' = list_append(index_results, spectral_index)
    /\ events' = Append(events, [kind |-> "append", idx |-> idx, of |-> item])
    /\ pc' = "for"
    /\ UNCHANGED <<items, bbox, it, idx, item, data, spectral_index,
                   stdout, requests, error, returned>>

Return ==
    /\ pc = "return"
    /\ returned' = index_results
    /\ pc' = "returned"
    /\ UNCHANGED <<items, bbox, it, idx, item, data, spectral_index, index_results,
                   stdout, requests, events, error>>

MIdle ==
    /\ spectral_index_values = <<>>
    /\ m_pc = "idle"
    /\ spectral_index_values_xr = None
    /\ median_out = None
    /\ m_error = None

FIdle ==
    /\ f_name = "idle"
    /\ bundles = None
    /\ f_pc = 0
    /\ f_env = None
    /\ f_ops = <<>>
    /\ f_result = None
    /\ f_error = None

GIdle ==
    /\ grid = <<>>
    /\ np_out = None
    /\ flips = 0

Init == PInit /\ MIdle /\ FIdle /\ GIdle

Next ==
    \/ ForNext /\ UNCHANGED <<mvars, fvars, gvars>>
    \/ PrintProgress /\ UNCHANGED <<mvars, fvars, gvars>>
    \/ LoadBegin /\ UNCHANGED <<mvars, fvars, gvars>>
    \/ LoadReturn /\ UNCHANGED <<mvars, fvars, gvars>>
    \/ LoadRaise /\ UNCHANGED <<mvars, fvars, gvars>>
    \/ FuncBegin /\ UNCHANGED <<mvars, fvars, gvars>>
    \/ FuncReturn /\ UNCHANGED <<mvars, fvars, gvars>>
    \/ FuncRaise /\ UNCHANGED <<mvars, fvars, gvars>>
    \/ AppendResult /\ UNCHANGED <<mvars, fvars, gvars>>
    \/ Return /\ UNCHANGED <<mvars, fvars, gvars>>

Spec == Init /\ [][Next]_vars

(***************************************************************************)
(* Properties of calculate_spectral_index_over_items (under Spec).         *)
(***************************************************************************)
\* iterations of the loop body that have run to their end
completed == IF pc \in {"for", "return", "returned"} THEN it ELSE it - 1

\* the raster of the i-th item (1-based): the formula applied to the bundle
\* loaded for that item
RasterOf(i) ==
    spectral_index_func(load_result(load_request(items[i], bands, box(bbox))))

\* C1: after k completed iterations index_results holds exactly the rasters
\* of the first k items, in order; a run in which nothing fails returns a
\* sequence as long as items whose i-th element is the raster of items[i].
C1_OrderPreserved ==
    /\ Len(index_results) = completed
    /\ \A i \in 1..Len(index_results) : index_results[i] = RasterOf(i)
    /\ pc = "returned" =>
          /\ Len(returned) = Len(items)
          /\ \A i \in 1..Len(items) : returned[i] = RasterOf(i)

C1_Witness ==
    /\ pc = "returned"
    /\ Len(items) >= 2
    /\ items[1] # items[2]
    /\ returned[1] # returned[2]

RaiseKinds == {"load_raise", "func_raise"}

\* C2: when the load or the formula of item k fails, the run ends with that
\* exception as it was raised: nothing is returned, nothing after k is
\* loaded or computed, and the loop does not go on.
C2_FailFast ==
    /\ (\E k \in 1..Len(events) : events[k].kind \in RaiseKinds) => error # None
    /\ error # None =>
          /\ pc = "raised"
          /\ returned = None
          /\ Len(requests) = error.idx + 1
          /\ \A k \in 1..Len(events) : events[k].idx <= error.idx
          /\ LET last == events[Len(events)]
             IN /\ last.kind = (IF error.raised_by = "load" THEN "load_raise" ELSE "func_raise")
                /\ last.idx = error.idx
          /\ error \in [raised_by : {"load", "func"}, idx : 0..(Len(items) - 1)]

C2_Witness ==
    /\ error # None
    /\ error.idx >= 1
    /\ Len(items) > error.idx + 1
    /\ Len(index_results) = error.idx

\* C6 as claimed: no request reaches the raster backend for an item whose
\* footprint is disjoint from the area of interest (the load is said to fail
\* before, when the bounds of the empty intersection are taken).
C6_DisjointNeverRequested ==
    \A k \in 1..Len(requests) :
        ~disjoint(requests[k].items[1].geometry, box(bbox))

\* C8: one progress message per item the run has started, in order, with
\* the 1-based position and the total; the message of an item is written
\* before that item is loaded.
C8_Progress ==
    /\ pc # "idle" => Len(stdout) = (IF pc = "print" THEN it - 1 ELSE it)
    /\ \A k \in 1..Len(stdout) :
          stdout[k] = <<"Processing item", k, "out of", Len(items)>>
    /\ Len(requests) <= Len(stdout)
    /\ pc = "returned" => Len(stdout) = Len(items)

C8_Witness ==
    /\ pc = "returned"
    /\ Len(stdout) >= 2

CycleKinds == <<"load_begin", "load_end", "func_begin", "func_end", "append">>

\* the k-th event of a run in which nothing fails
CycleEvent(k) ==
    [kind |-> CycleKinds[((k - 1) % 5) + 1],
     idx  |-> (k - 1) \div 5,
     of   |-> items[((k - 1) \div 5) + 1]]

RaiseInsteadOf(e) ==
    [e EXCEPT !.kind = IF e.kind = "load_end" THEN "load_raise"
                       ELSE IF e.kind = "func_end" THEN "func_raise" ELSE "none"]

\* loads and formula applications begun and not yet ended, after k events
InProgress(k) ==
    Cardinality({j \in 1..k : events[j].kind \in {"load_begin", "func_begin"}})
    - Cardinality({j \in 1..k : events[j].kind \in
                      {"load_end", "func_end", "load_raise", "func_raise"}})

\* C10: the run is a sequence of cycles load, formula, append, one per item
\* in list order: each begins after the one before has ended, at most one
\* load or formula application is in progress, each item is loaded once and
\* the formula is applied once, to the bundle loaded for that item.
C10_Sequential ==
    /\ \A k \in 1..Len(events) :
          \/ events[k] = CycleEvent(k)
          \/ k = Len(events) /\ events[k] = RaiseInsteadOf(CycleEvent(k))
    /\ \A k \in 0..Len(events) : InProgress(k) \in {0, 1}
    /\ Len(requests) = Cardinality({k \in 1..Len(events) : events[k].kind = "load_begin"})
    /\ \A i \in 1..Len(requests) : requests[i].items = <<items[i]>>
    /\ pc = "returned" => Len(events) = 5 * Len(items)

C10_Witness ==
    /\ pc = "computing"
    /\ it >= 2
    /\ items[1] # items[2]

(***************************************************************************)
(* calculate_median_index.                                                 *)
(*                                                                         *)
(* A raster (xr.DataArray with dimensions y and x) is a record: its index  *)
(* along y, its index along x (sets of coordinate labels) and one float    *)
(* per cell <<y, x>>.  Cell values are kept in halves, so that the mean of *)
(* two whole numbers is exact: the number v is Num(2 * v).                 *)
(***************************************************************************)
Whole(v) == Num(2 * v)

CellValues == {NaN, Whole(1), Whole(2), Whole(3)}
YIndexes == {{0}, {1}, {0, 1}}
XIndexes == {{0}}
Rasters ==
    UNION { UNION { [y : {ys}, x : {xs}, values : [ys \X xs -> CellValues]]
                    : xs \in XIndexes } : ys \in YIndexes }

\* a 2 x 2 raster from its two rows
Raster2x2(r0, r1) ==
    [y |-> {0, 1}, x |-> {0, 1},
     values |-> [c \in {0, 1} \X {0, 1} |->
                    IF c[1] = 0 THEN r0[c[2] + 1] ELSE r1[c[2] + 1]]]

\* the two scenes [[1,2],[3,NaN]] and [[5,6],[NaN,NaN]]
TwoScenes ==
    << Raster2x2(<<Whole(1), Whole(2)>>, <<Whole(3), NaN>>),
       Raster2x2(<<Whole(5), Whole(6)>>, <<NaN, NaN>>) >>

\* xr.concat raises ValueError("must supply at least one object to
\* concatenate") when it is given no object.
concat_never_raises(objs) == FALSE
concat_raises(objs) == Len(objs) = 0

\* join="outer", the default of xr.concat: the union of the indexes
join_inner(indexes) == {c \in UNION indexes : \A ix \in indexes : c \in ix}
join_outer(indexes) == UNION indexes

\* reindexing onto the joined indexes fills the new cells with NaN
reindex(r, ys, xs) ==
    [c \in ys \X xs |-> IF c \in DOMAIN r.values THEN r.values[c] ELSE NaN]

\* xr.concat(objs, dim="image"): align the objects, then stack them
xr_concat(objs) ==
    LET ys == join_outer({objs[i].y : i \in 1..Len(objs)})
        xs == join_outer({objs[i].x : i \in 1..Len(objs)})
    IN [y |-> ys, x |-> xs,
        image |-> [i \in 1..Len(objs) |-> reindex(objs[i], ys, xs)]]

IsNumber(v) == v # NaN

\* the k-th smallest of a non-empty sequence of numbers
kth(vs, k) ==
    CHOOSE v \in {vs[i][1] : i \in 1..Len(vs)} :
        /\ Cardinality({i \in 1..Len(vs) : vs[i][1] < v}) < k
        /\ Cardinality({i \in 1..Len(vs) : vs[i][1] <= v}) >= k

\* the median of a non-empty sequence of numbers (in halves): the middle one,
\* or the mean of the two middle ones
median_of(vs) ==
    LET n == Len(vs)
    IN IF n % 2 = 1 THEN Num(kth(vs, (n + 1) \div 2))
       ELSE Num((kth(vs, n \div 2) + kth(vs, (n \div 2) + 1)) \div 2)

\* the median of a float column with skipna=False: NaN as soon as one is NaN
median_propagating_nan(col) ==
    IF \E i \in 1..Len(col) : col[i] = NaN THEN NaN
    ELSE IF col = <<>> THEN NaN ELSE median_of(col)

\* DataArray.median on floats skips NaN (skipna defaults to True for float
\* data); a column with no number gives NaN
nanmedian(col) ==
    LET numbers == SelectSeq(col, IsNumber)
    IN IF numbers = <<>> THEN NaN ELSE median_of(numbers)

\* the column of a stack at one cell
column(stack, c) == [i \in 1..Len(stack.image) |-> stack.image[i][c]]

\* spectral_index_values_xr.median(dim="image")
xr_median(stack) ==
    [y |-> stack.y, x |-> stack.x,
     values |-> [c \in stack.y \X stack.x |-> nanmedian(column(stack, c))]]

\* print("Concatenating Spectral Index images.")
\* print("Calculating the means, this will take a while.")
concatenating_message == <<"Concatenating Spectral Index images.">>
calculating_message == <<"Calculating the means, this will take a while.">>

MInit ==
    /\ spectral_index_values \in SeqsUpTo(Rasters, MaxRasters) \cup {TwoScenes}
    /\ m_pc = "print_concatenating"
    /\ spectral_index_values_xr = None
    /\ median_out = None
    /\ m_error = None

\* the first statement: the message is written before xr.concat is called,
\* so also when xr.concat then raises
PrintConcatenating ==
    /\ m_pc = "print_concatenating"
    /\ stdout' = Append(stdout, concatenating_message)
    /\ m_pc' = "concat"
    /\ UNCHANGED <<spectral_index_values, spectral_index_values_xr, median_out, m_error>>

\* xr.concat(...) raises
ConcatRaise ==
    /\ m_pc = "concat"
    /\ concat_raises(spectral_index_values)
    /\ m_error' = [type |-> "ValueError",
                   message |-> "must supply at least one object to concatenate"]
    /\ m_pc' = "raised"
    /\ UNCHANGED <<spectral_index_values, spectral_index_values_xr, median_out, stdout>>

\* spectral_index_values_xr = xr.concat(spectral_index_values, dim="image").load()
Concat ==
    /\ m_pc = "concat"
    /\ ~concat_raises(spectral_index_values)
    /\ spectral_index_values_xr' = xr_concat(spectral_index_values)
    /\ m_pc' = "print_calculating"
    /\ UNCHANGED <<spectral_index_values, median_out, m_error, stdout>>

\* the message before the median
PrintCalculating ==
    /\ m_pc = "print_calculating"
    /\ stdout' = Append(stdout, calculating_message)
    /\ m_pc' = "median"
    /\ UNCHANGED <<spectral_index_values, spectral_index_values_xr, median_out, m_error>>

\* the median over "image", and the return
Median ==
    /\ m_pc = "median"
    /\ median_out' = xr_median(spectral_index_values_xr)
    /\ m_pc' = "returned"
    /\ UNCHANGED <<spectral_index_values, spectral_index_values_xr, m_error, stdout>>

InitMedian == PIdle /\ MInit /\ FIdle /\ GIdle

NextMedian ==
    \/ PrintConcatenating /\ UNCHANGED <<plocals, fvars, gvars>>
    \/ ConcatRaise /\ UNCHANGED <<plocals, fvars, gvars>>
    \/ Concat /\ UNCHANGED <<plocals, fvars, gvars>>
    \/ PrintCalculating /\ UNCHANGED <<plocals, fvars, gvars>>
    \/ Median /\ UNCHANGED <<plocals, fvars, gvars>>

SpecMedian == InitMedian /\ [][NextMedian]_vars

(***************************************************************************)
(* Properties of calculate_median_index (under SpecMedian).                *)
(***************************************************************************)
NRasters == Len(spectral_index_values)

\* the call has ended: it returned or an exception left it
Ended == m_pc \in {"raised", "returned"}

SameGrid == \A i, j \in 1..NRasters :
                /\ spectral_index_values[i].y = spectral_index_values[j].y
                /\ spectral_index_values[i].x = spectral_index_values[j].x

\* the numbers the input rasters hold at cell c, as a set of <<i, number>>
NumbersAt(c) ==
    {<<i, spectral_index_values[i].values[c][1]>> :
        i \in {j \in 1..NRasters : /\ c \in DOMAIN spectral_index_values[j].values
                                   /\ spectral_index_values[j].values[c] # NaN}}

\* m (in halves) is the median of the finite set P of <<i, number>>: P can be
\* listed in nondecreasing order with m the middle element, or the mean of the
\* two middle elements
IsMedianOf(m, P) ==
    LET n == Cardinality(P)
    IN \E s \in [1..n -> P] :
          /\ \A a, b \in 1..n : a < b => (s[a] # s[b] /\ s[a][2] <= s[b][2])
          /\ IF n % 2 = 1 THEN m = s[(n + 1) \div 2][2]
             ELSE 2 * m = s[n \div 2][2] + s[(n \div 2) + 1][2]

\* C3: on an empty sequence the call ends in an error and returns nothing:
\* after its first message xr.concat raises, no stack is built and no median
\* is taken.
C3_EmptyRejected ==
    /\ (NRasters = 0 /\ Ended) =>
          /\ m_pc = "raised"
          /\ m_error # None
          /\ median_out = None
          /\ stdout = <<concatenating_message>>
    /\ (NRasters = 0 /\ m_pc # "idle") =>
          /\ median_out = None
          /\ spectral_index_values_xr = None
          /\ m_pc \in {"print_concatenating", "concat", "raised"}

C3_Witness ==
    /\ NRasters = 0
    /\ m_pc = "raised"
    /\ m_error.type = "ValueError"

\* C4: on a non-empty sequence of rasters of one grid the call returns a
\* raster of that grid; a cell is missing iff it is missing in every input,
\* and is otherwise the median of the inputs' non-missing values there.
\* The two scenes [[1,2],[3,NaN]], [[5,6],[NaN,NaN]] give [[3,4],[3,NaN]].
C4_MedianIgnoresMissing ==
    /\ (NRasters > 0 /\ SameGrid /\ Ended) =>
          /\ m_pc = "returned"
          /\ m_error = None
          /\ median_out.y = spectral_index_values[1].y
          /\ median_out.x = spectral_index_values[1].x
          /\ DOMAIN median_out.values = DOMAIN spectral_index_values[1].values
          /\ \A c \in DOMAIN median_out.values :
                /\ median_out.values[c] = NaN <=> NumbersAt(c) = {}
                /\ median_out.values[c] # NaN =>
                      IsMedianOf(median_out.values[c][1], NumbersAt(c))
    /\ (spectral_index_values = TwoScenes /\ m_pc = "returned") =>
          median_out = Raster2x2(<<Whole(3), Whole(4)>>, <<Whole(3), NaN>>)

C4_Witness ==
    /\ m_pc = "returned"
    /\ NRasters = 3
    /\ SameGrid
    /\ \E c \in DOMAIN median_out.values :
          /\ Cardinality(NumbersAt(c)) = 2
          /\ median_out.values[c] = Num(3)
    /\ \E c \in DOMAIN median_out.values : median_out.values[c] = NaN

\* C5 as claimed: rasters whose grids are not all identical make the call
\* fail; it never returns a composite for them.
C5_MismatchRaises ==
    (NRasters > 0 /\ ~SameGrid /\ Ended) =>
        /\ m_pc = "raised"
        /\ median_out = None

\* C5 as amended: rasters whose grids are not all identical do not make the
\* call fail; the composite is on the union of their grids, nothing is
\* cropped, and each cell is the median of the non-missing values of the
\* rasters that cover it (missing when there is none).
C5_MismatchOuterJoin ==
    (NRasters > 0 /\ ~SameGrid /\ Ended) =>
        /\ m_pc = "returned"
        /\ m_error = None
        /\ median_out.y = UNION {spectral_index_values[i].y : i \in 1..NRasters}
        /\ median_out.x = UNION {spectral_index_values[i].x : i \in 1..NRasters}
        /\ DOMAIN median_out.values = median_out.y \X median_out.x
        /\ \A i \in 1..NRasters :
              DOMAIN spectral_index_values[i].values \subseteq DOMAIN median_out.values
        /\ \A c \in DOMAIN median_out.values :
              /\ median_out.values[c] = NaN <=> NumbersAt(c) = {}
              /\ median_out.values[c] # NaN =>
                    IsMedianOf(median_out.values[c][1], NumbersAt(c))

C5_Witness ==
    /\ m_pc = "returned"
    /\ NRasters = 2
    /\ spectral_index_values[1].y = {0}
    /\ spectral_index_values[2].y = {1}
    /\ median_out.y = {0, 1}
    /\ median_out.values[<<0, 0>>] = Whole(1)
    /\ median_out.values[<<1, 0>>] = Whole(3)

(***************************************************************************)
(* The index formulas of spectral_indexes.py.                              *)
(*                                                                         *)
(* A formula is the sequence of the operations Python performs, in the     *)
(* order it performs them: data["b"] (getitem), .astype("float"), -, +, /  *)
(* and return.  Values are terms, so that the result says how it was       *)
(* computed; each value also carries the datasets it was derived from.     *)
(***************************************************************************)
BandNames == {"red", "green", "nir", "swir22"}

Ins(op, dst, a, b) == [op |-> op, dst |-> dst, a |-> a, b |-> b]

\* first = ds[band1].astype("float"); second = ds[band2].astype("float");
\* out = (A - B) / (A + B)
normalized_difference(ds, band1, first, band2, second, A, B, out) ==
    << Ins("getitem", "t0", ds, band1), Ins("astype", first, "t0", "float"),
       Ins("getitem", "t0", ds, band2), Ins("astype", second, "t0", "float"),
       Ins("sub", "t1", A, B), Ins("add", "t2", A, B), Ins("div", out, "t1", "t2") >>

return_ndvi ==
    normalized_difference("data", "red", "red", "nir", "nir", "nir", "red", "ndvi")
    \o << Ins("return", "", "ndvi", "") >>

return_ndbi ==
    normalized_difference("data", "swir22", "swir", "nir", "nir", "swir", "nir", "ndbi")
    \o << Ins("return", "", "ndbi", "") >>

return_ndwi ==
    normalized_difference("data", "green", "green", "swir22", "swir", "green", "swir", "ndwi")
    \o << Ins("return", "", "ndwi", "") >>

return_nbai ==
    normalized_difference("data", "swir22", "swir", "green", "green", "swir", "green", "nbai")
    \o << Ins("return", "", "nbai", "") >>

return_nbr ==
    normalized_difference("data", "nir", "nir", "swir22", "swir", "nir", "swir", "nbr")
    \o << Ins("return", "", "nbr", "") >>

return_dnbr ==
    normalized_difference("data_pre", "nir", "nir_pre", "swir22", "swir_pre",
                          "nir_pre", "swir_pre", "nbr_pre")
    \o normalized_difference("data_post", "nir", "nir_post", "swir22", "swir_post",
                             "nir_post", "swir_post", "nbr_post")
    \o << Ins("sub", "dnbr", "nbr_pre", "nbr_post"), Ins("return", "", "dnbr", "") >>

FormulaNames == {"return_ndvi", "return_ndbi", "return_ndwi", "return_nbai",
                 "return_nbr", "return_dnbr"}

program(name) ==
    CASE name = "return_ndvi" -> return_ndvi
      [] name = "return_ndbi" -> return_ndbi
      [] name = "return_ndwi" -> return_ndwi
      [] name = "return_nbai" -> return_nbai
      [] name = "return_nbr"  -> return_nbr
      [] name = "return_dnbr" -> return_dnbr

\* the parameters of a formula
parameters(name) == IF name = "return_dnbr" THEN {"data_pre", "data_post"} ELSE {"data"}

Locals == {"t0", "t1", "t2", "red", "green", "nir", "swir", "ndvi", "ndbi", "ndwi",
           "nbai", "nbr", "nir_pre", "swir_pre", "nbr_pre", "nir_post", "swir_post",
           "nbr_post", "dnbr"}

\* Dataset.__getitem__ raises KeyError for a name the dataset does not hold
getitem_never_raises(ds, band) == FALSE
getitem_raises(ds, band) == band \notin bundles[ds]

Value(op, args, from) == [op |-> op, args |-> args, from |-> from]

Done == f_pc > Len(program(f_name))
Current == program(f_name)[f_pc]
Running == f_name # "idle" /\ f_error = None /\ ~Done

FInit ==
    /\ f_name \in FormulaNames
    /\ bundles \in [parameters(f_name) -> SUBSET BandNames]
    /\ f_pc = 1
    /\ f_env = [v \in Locals |-> None]
    /\ f_ops = <<>>
    /\ f_result = None
    /\ f_error = None

\* ds["band"], the band is there
GetItem ==
    /\ Running
    /\ Current.op = "getitem"
    /\ ~getitem_raises(Current.a, Current.b)
    /\ f_env' = [f_env EXCEPT ![Current.dst] =
                    Value("band", <<Current.a, Current.b>>, {Current.a})]
    /\ f_ops' = Append(f_ops, [op |-> "getitem", from |-> {Current.a}])
    /\ f_pc' = f_pc + 1
    /\ UNCHANGED <<f_name, bundles, f_result, f_error>>

\* ds["band"], the band is not there: KeyError leaves the formula
GetItemRaise ==
    /\ Running
    /\ Current.op = "getitem"
    /\ getitem_raises(Current.a, Current.b)
    /\ f_error' = [type |-> "KeyError", ds |-> Current.a, band |-> Current.b]
    /\ UNCHANGED <<f_name, bundles, f_pc, f_env, f_ops, f_result>>

\* .astype("float")
AsType ==
    /\ Running
    /\ Current.op = "astype"
    /\ f_env' = [f_env EXCEPT ![Current.dst] =
                    Value("astype", <<f_env[Current.a], Current.b>>, f_env[Current.a].from)]
    /\ f_ops' = Append(f_ops, [op |-> "astype", from |-> f_env[Current.a].from])
    /\ f_pc' = f_pc + 1
    /\ UNCHANGED <<f_name, bundles, f_result, f_error>>

\* a - b, a + b, a / b (elementwise; a zero denominator gives a non-finite
\* cell, not an exception)
Arithmetic ==
    /\ Running
    /\ Current.op \in {"sub", "add", "div"}
    /\ LET from == f_env[Current.a].from \cup f_env[Current.b].from
       IN /\ f_env' = [f_env EXCEPT ![Current.dst] =
                          Value(Current.op, <<f_env[Current.a], f_env[Current.b]>>, from)]
          /\ f_ops' = Append(f_ops, [op |-> Current.op, from |-> from])
    /\ f_pc' = f_pc + 1
    /\ UNCHANGED <<f_name, bundles, f_result, f_error>>

ReturnIndex ==
    /\ Running
    /\ Current.op = "return"
    /\ f_result' = f_env[Current.a]
    /\ f_pc' = f_pc + 1
    /\ UNCHANGED <<f_name, bundles, f_env, f_ops, f_error>>

InitFormula == PIdle /\ MIdle /\ FInit /\ GIdle

NextFormula ==
    \/ GetItem /\ UNCHANGED <<pvars, mvars, gvars>>
    \/ GetItemRaise /\ UNCHANGED <<pvars, mvars, gvars>>
    \/ AsType /\ UNCHANGED <<pvars, mvars, gvars>>
    \/ Arithmetic /\ UNCHANGED <<pvars, mvars, gvars>>
    \/ ReturnIndex /\ UNCHANGED <<pvars, mvars, gvars>>

SpecFormula == InitFormula /\ [][NextFormula]_vars

(***************************************************************************)
(* Properties of the index formulas (under SpecFormula).                   *)
(***************************************************************************)
\* the bands each formula needs of each of its bundles
RequiredBands(name) ==
    CASE name = "return_ndvi" -> {"nir", "red"}
      [] name = "return_ndbi" -> {"swir22", "nir"}
      [] name = "return_ndwi" -> {"green", "swir22"}
      [] name = "return_nbai" -> {"swir22", "green"}
      [] name = "return_nbr"  -> {"nir", "swir22"}
      [] name = "return_dnbr" -> {"nir", "swir22"}

Complete(ds) == RequiredBands(f_name) \subseteq bundles[ds]
SomeBandMissing == \E ds \in parameters(f_name) : ~Complete(ds)
Computations == {"astype", "sub", "add", "div"}
OpsOf(kinds, ds) == {k \in 1..Len(f_ops) : f_ops[k].op \in kinds /\ ds \in f_ops[k].from}

\* C7 as claimed: when a required band is absent the formula raises before
\* any float cast, subtraction, addition or division has been performed.
C7_NothingComputedBeforeError ==
    (f_name # "idle" /\ f_error # None) =>
        \A k \in 1..Len(f_ops) : f_ops[k].op \notin Computations

\* C7 as amended: when a required band is absent the formula raises KeyError
\* for an absent band and returns nothing; before the error nothing is
\* subtracted, added or divided that derives from the bundle lacking the
\* band, and at most one band of that bundle has been cast; a bundle whose
\* values were computed with before the error has all its bands (the
\* pre-event bundle of return_dnbr).
C7_RaisesAtFirstAbsentBand ==
    f_name # "idle" =>
        /\ Done => (~SomeBandMissing /\ f_error = None /\ f_result # None)
        /\ (f_error = None /\ ~Done) => f_result = None
        /\ f_error # None =>
              /\ SomeBandMissing
              /\ f_result = None
              /\ f_error.type = "KeyError"
              /\ f_error.band \in RequiredBands(f_name) \ bundles[f_error.ds]
              /\ OpsOf({"sub", "add", "div"}, f_error.ds) = {}
              /\ Cardinality(OpsOf({"astype"}, f_error.ds)) <= 1
              /\ \A ds \in parameters(f_name) :
                    OpsOf(Computations, ds) # {} /\ ds # f_error.ds => Complete(ds)

C7_Witness ==
    /\ f_name = "return_dnbr"
    /\ f_error # None
    /\ f_error.ds = "data_post"
    /\ f_error.band = "swir22"
    /\ Complete("data_pre")
    /\ Cardinality(OpsOf({"div"}, "data_pre")) = 1
    /\ Cardinality(OpsOf({"astype"}, "data_post")) = 1

(***************************************************************************)
(* xr_spectral_index_data_to_np, and the flips of plot_territory and       *)
(* plot_overlay applied to its result.                                     *)
(*                                                                         *)
(* A 2-D array is a sequence of rows (row 0 of numpy is row 1 here), each  *)
(* a sequence of cells.                                                    *)
(***************************************************************************)
Cells == {0, 1}
Arrays == UNION { [1..r -> [1..c -> Cells]] : r \in 0..MaxRows, c \in 1..MaxCols }
DataArrays == [dims : {<<"y", "x">>}, values : Arrays]

\* DataArray.to_numpy(): the values, without the labels
to_numpy(xr_data) == xr_data.values

\* np.flipud: the rows in reverse order, the columns untouched
fliplr(a) == [r \in 1..Len(a) |-> [c \in 1..Len(a[r]) |-> a[r][Len(a[r]) + 1 - c]]]
flipud(a) == [r \in 1..Len(a) |-> a[Len(a) + 1 - r]]

GInit ==
    /\ grid \in DataArrays
    /\ np_out = None
    /\ flips = 0

\* xr_spectral_index_data_to_np(xr_data)
XrToNp ==
    /\ flips = 0
    /\ np_out' = flipud(to_numpy(grid))
    /\ flips' = 1
    /\ UNCHANGED grid

\* data = np.flipud(data) in plot_territory, data_to_plot = np.flipud(data) in
\* plot_overlay, on an array that xr_spectral_index_data_to_np returned
FlipAgain ==
    /\ flips >= 1
    /\ flips < MaxFlips
    /\ np_out' = flipud(np_out)
    /\ flips' = flips + 1
    /\ UNCHANGED grid

InitFlip == PIdle /\ MIdle /\ FIdle /\ GInit

NextFlip ==
    \/ XrToNp /\ UNCHANGED <<pvars, mvars, fvars>>
    \/ FlipAgain /\ UNCHANGED <<pvars, mvars, fvars>>

SpecFlip == InitFlip /\ [][NextFlip]_vars

(***************************************************************************)
(* Properties of the display flip (under SpecFlip).                        *)
(***************************************************************************)
\* C9: one flip of a grid of R rows puts input row r (0-based) at output row
\* R-1-r and leaves every row as it is; two flips give the grid back.
C9_FlipInvolution ==
    flips >= 1 =>
        LET in == grid.values
            R  == Len(in)
        IN /\ Len(np_out) = R
           /\ flips % 2 = 1 => \A r \in 0..(R - 1) : np_out[(R - 1 - r) + 1] = in[r + 1]
           /\ flips % 2 = 0 => np_out = in

C9_Witness ==
    /\ flips = 2
    /\ Len(grid.values) = 3
    /\ grid.values[1] # grid.values[3]
    /\ np_out = grid.values

====
